---- MODULE Spec2Model ----
(***************************************************************************)
(* A model of src/gitlab.py, the Salt execution module that talks to the   *)
(* GitLab API v4: configuration lookup, request construction, the four     *)
(* verbs and the project-variable operations.                              *)
(*                                                                         *)
(* Strings that the code takes apart (paths, URLs) are sequences of        *)
(* tokens; "/" is the separator token.  A Python dict is a function whose  *)
(* DOMAIN is the set of its keys.  The GitLab server and the Salt master   *)
(* configuration file are the environment.                                 *)
(***************************************************************************)
EXTENDS Integers, Sequences, FiniteSets, TLC

\* ------------------------------------------------------------- bounds
NumKeys == 2
NumProjects == 1
MaxPathLen == 4

\* ---------------------------------------------------------- universes
KeyNames == <<"K1", "K2", "K3", "K4">>
ProjectNames == <<"1", "2", "3">>
Keys == {KeyNames[i] : i \in 1..NumKeys}
Projects == {ProjectNames[i] : i \in 1..NumProjects}
Values == {"v1"}

\* Python's None, where a string, a message or a dict is expected.
NoneStr == "<None>"
NoneMsg == <<>>
NoneDict == [none |-> TRUE]
EmptyDict == [k \in {} |-> TRUE]

\* dict.get(k, default)
Get(d, k, default) == IF k \in DOMAIN d THEN d[k] ELSE default

\* the dict d restricted to the keys in S
Restrict(d, S) == [k \in (DOMAIN d) \cap S |-> d[k]]

\* d1 updated with d2 (keyword arguments merged into a call)
Merge(d1, d2) ==
  [k \in (DOMAIN d1) \cup (DOMAIN d2) |-> IF k \in DOMAIN d2 THEN d2[k] ELSE d1[k]]

\* --------------------------------------------------------- outcomes
SaltInvocationError == "SaltInvocationError"
TypeError == "TypeError"

Raise(exc, msg) == [kind |-> "raise", exc |-> exc, msg |-> msg]
Return(v) == [kind |-> "return", value |-> v]
Request(req) == [kind |-> "request", req |-> req]
NoResult == [kind |-> "none"]

\* http_client.OK, http_client.CREATED
OK == 200
CREATED == 201

\* ------------------------------------------------------------- urls
ApiRoot == <<"/", "api", "/", "v4">>
Dot == <<".">>
DotDot == <<".", ".">>

\* str.split('/')
RECURSIVE Split(_)
Split(s) ==
  IF s = <<>> THEN << <<>> >>
  ELSE LET rest == Split(Tail(s)) IN
       IF Head(s) = "/" THEN << <<>> >> \o rest
       ELSE << <<Head(s)>> \o Head(rest) >> \o Tail(rest)

\* '/'.join(segments)
RECURSIVE Join(_)
Join(segs) ==
  IF segs = <<>> THEN <<>>
  ELSE IF Len(segs) = 1 THEN segs[1]
  ELSE segs[1] \o <<"/">> \o Join(Tail(segs))

\* urljoin's loop over the segments: '..' pops, '.' is skipped
RECURSIVE ResolveDots(_, _)
ResolveDots(segs, acc) ==
  IF segs = <<>> THEN acc
  ELSE LET seg == Head(segs) IN
       ResolveDots(Tail(segs),
                   IF seg = DotDot
                     THEN (IF acc = <<>> THEN acc ELSE SubSeq(acc, 1, Len(acc) - 1))
                   ELSE IF seg = Dot THEN acc
                   ELSE Append(acc, seg))

\* urllib.parse.urljoin(base, url) for a url that is an absolute path (it
\* always is here: it starts with '/api/v4').  base[1] is the scheme and
\* authority of base, the rest of base is its path, which an absolute path
\* replaces.
urljoin(base, url) ==
  IF base = <<>> THEN url
  ELSE LET segments == Split(url)
           resolved == ResolveDots(segments, <<>>)
           closed == IF segments[Len(segments)] \in {Dot, DotDot}
                       THEN Append(resolved, <<>>) ELSE resolved
           joined == Join(closed)
           path == IF joined = <<>> THEN <<"/">> ELSE joined
           rooted == IF Head(path) # "/" THEN <<"/">> \o path ELSE path
       IN <<base[1]>> \o rooted

\* url = _urljoin(api_url, '/api/v4' + six.text_type(path))
RequestUrl(api_url, path) == urljoin(api_url, ApiRoot \o path)

\* ------------------------------------------------------ configuration
HostUrl == <<"https://gitlab.example.com">>
HostUrlSlash == <<"https://gitlab.example.com", "/">>
HostUrlPath == <<"https://gitlab.example.com", "/", "gitlab">>

\* the 'gitlab' block of the master configuration, as deployments have it:
\* complete, or with api_url or token missing or empty
GitlabBlocks ==
  { [api_url |-> HostUrl, token |-> "t0ken"],
    [api_url |-> HostUrlPath, token |-> "t0ken", ca_certs |-> "/etc/ssl/ca.pem"],
    [token |-> "t0ken"],
    [api_url |-> <<>>, token |-> "t0ken"],
    [api_url |-> HostUrl],
    [api_url |-> HostUrl, token |-> ""] }

\* /etc/salt/master: unreadable, without a 'gitlab' block, or with one
MasterFiles ==
  { [readable |-> FALSE, opts |-> EmptyDict], [readable |-> TRUE, opts |-> EmptyDict] }
  \cup { [readable |-> TRUE, opts |-> [gitlab |-> g]] : g \in GitlabBlocks }

\* _get_config(): master_opts.get('gitlab', {}), or the read failure
get_config(m) ==
  IF ~m.readable
    THEN Raise(SaltInvocationError, <<"No GitLab configuration found">>)
    ELSE Return(Get(m.opts, "gitlab", EmptyDict))

\* ---------------------------------------------------- _http_request
\* the keyword parameters of _http_request besides method and path
AcceptedOptions ==
  {"data", "formdata", "formdata_fieldname", "stream", "streaming_callback",
   "verify_ssl", "cert"}

\* Headers with a fault: Content-Type on every request that is not a GET
Headers_not_get(method, token) ==
  IF method # "GET"
    THEN ("PRIVATE-TOKEN" :> token) @@ ("Content-Type" :> "application/json")
    ELSE ("PRIVATE-TOKEN" :> token)

\* headers = {'PRIVATE-TOKEN': token}; Content-Type unless the method is POST
Headers(method, token) ==
  IF method # "POST"
    THEN ("PRIVATE-TOKEN" :> token) @@ ("Content-Type" :> "application/json")
    ELSE ("PRIVATE-TOKEN" :> token)

\* http_request with a fault: the keyword check is lost and the request is
\* built from whatever the configuration holds
http_request_unchecked(m, method, path, kw) ==
  LET cfg == get_config(m)
      gitlab_config == IF cfg.kind = "raise" THEN EmptyDict ELSE cfg.value
  IN Request([method |-> method,
              url |-> RequestUrl(Get(gitlab_config, "api_url", <<>>), path),
              headers |-> Headers(method, Get(gitlab_config, "token", "")),
              data |-> Get(kw, "data", NoneDict),
              decode |-> (method # "DELETE"),
              ca_bundle |-> NoneStr,
              formdata |-> Get(kw, "formdata", FALSE),
              formdata_fieldname |-> Get(kw, "formdata_fieldname", NoneStr),
              stream |-> Get(kw, "stream", FALSE),
              options |-> Restrict(kw, (DOMAIN kw) \ {"data"})])

\* _http_request up to the call of salt.utils.http.query: the exception it
\* raises, or the request it hands to query.  A keyword that is no parameter
\* of _http_request is a TypeError of the call itself.  log.warning(url)
\* changes nothing here.
http_request(m, method, path, kw) ==
  IF ~(DOMAIN kw \subseteq AcceptedOptions)
    THEN Raise(TypeError, <<"unexpected keyword argument">>)
  ELSE LET cfg == get_config(m) IN
    IF cfg.kind = "raise" THEN cfg
    ELSE LET gitlab_config == cfg.value
             api_url == Get(gitlab_config, "api_url", <<>>)
             token == Get(gitlab_config, "token", "")
             ca_certs == Get(gitlab_config, "ca_certs", "")
             verify_ssl == Get(kw, "verify_ssl", TRUE)
         IN IF api_url = <<>>
              THEN Raise(SaltInvocationError, <<"No GitLab API URL found">>)
            ELSE IF token = ""
              THEN Raise(SaltInvocationError, <<"No GitLab Token found">>)
            ELSE Request([method |-> method,
                          url |-> RequestUrl(api_url, path),
                          headers |-> Headers(method, token),
                          data |-> Get(kw, "data", NoneDict),
                          decode |-> (method # "DELETE"),
                          ca_bundle |-> IF ca_certs # "" /\ verify_ssl = TRUE
                                          THEN ca_certs ELSE NoneStr,
                          formdata |-> Get(kw, "formdata", FALSE),
                          formdata_fieldname |-> Get(kw, "formdata_fieldname", NoneStr),
                          stream |-> Get(kw, "stream", FALSE),
              options |-> Restrict(kw, (DOMAIN kw) \ {"data"})])

\* what salt.utils.http.query(..., status=True) returns for a server status:
\* an error status gives 'status' and 'error', any other 'status' and, when
\* the body is decoded, 'dict'
query(req, status, body) ==
  IF status >= 400 THEN [status |-> status, error |-> <<"HTTP", status>>]
  ELSE IF req.decode THEN [status |-> status, dict |-> body]
  ELSE [status |-> status]

\* ------------------------------------------------------------- verbs
\* http_delete(path, **kwargs)
http_delete_request(m, path, kw) == http_request(m, "DELETE", path, kw)

http_delete(response) == Return(response)

\* http_get's call: _http_request('GET', path, **kwargs)
http_get_request(m, path, kw) == http_request(m, "GET", path, kw)

\* http_get with a fault: a not-found status gives an empty result
http_get_find_or_empty(response, kw) ==
  IF Get(kw, "stream", FALSE) THEN Return(response)
  ELSE IF response.status = 404 THEN Return(EmptyDict)
  ELSE IF response.status # OK
    THEN Raise(SaltInvocationError, Get(response, "error", NoneMsg))
  ELSE Return(response.dict)

\* http_get once the response is there
http_get(response, kw) ==
  IF Get(kw, "stream", FALSE) THEN Return(response)
  ELSE IF response.status # OK
    THEN Raise(SaltInvocationError, Get(response, "error", NoneMsg))
  ELSE Return(response.dict)

\* http_post's call: _http_request('POST', path, data=data, **kwargs)
http_post_request(m, path, data, kw) ==
  IF "data" \in DOMAIN kw
    THEN Raise(TypeError, <<"multiple values for keyword argument">>)
    ELSE http_request(m, "POST", path, Merge(kw, [data |-> data]))

\* http_post with a fault: the response is returned whatever its status
http_post_unchecked(response) == Return(response)

\* http_post once the response is there
http_post(response) ==
  IF response.status # CREATED
    THEN Raise(SaltInvocationError, Get(response, "error", NoneMsg))
    ELSE Return(Get(response, "dict", EmptyDict))

\* http_put's call: _http_request('PUT', path, data=data, **kwargs)
http_put_request(m, path, data, kw) ==
  IF "data" \in DOMAIN kw
    THEN Raise(TypeError, <<"multiple values for keyword argument">>)
    ELSE http_request(m, "PUT", path, Merge(kw, [data |-> data]))

\* http_put returns what _http_request returns
http_put(response) == Return(response)

\* ------------------------------------------------- project variables
\* '/projects/{0}/variables'.format(project_id)
VariablesPath(project_id) == <<"/", "projects", "/", project_id, "/", "variables">>

\* '/projects/{0}/variables/{1}'.format(project_id, key)
VariablePath(project_id, key) == VariablesPath(project_id) \o <<"/", key>>

\* project_create_variable_request with a fault: the form-data check is made
\* after the request has been prepared
project_create_variable_late_check(m, project_id, key, value, kw) ==
  LET formdata == Get(kw, "formdata", FALSE)
      formdata_fieldname == Get(kw, "formdata_fieldname", NoneStr)
      named == formdata_fieldname \notin {NoneStr, ""}
      post_data == [key |-> key,
                    masked |-> Get(kw, "masked", FALSE),
                    protected |-> Get(kw, "protected", FALSE),
                    value |-> value,
                    variable_type |-> Get(kw, "variable_type", "env_var")]
      plan == http_post_request(m, VariablesPath(project_id), post_data, EmptyDict)
  IN IF plan.kind = "raise" THEN plan
     ELSE IF formdata /\ ~named
       THEN Raise(SaltInvocationError,
                  <<"formdata_fieldname must be set if formdata=True">>)
     ELSE plan

\* project_create_variable_request with a fault: form data without a field
\* name is posted as it is
project_create_variable_no_check(m, project_id, key, value, kw) ==
  http_post_request(m, VariablesPath(project_id),
                    [key |-> key,
                     masked |-> Get(kw, "masked", FALSE),
                     protected |-> Get(kw, "protected", FALSE),
                     value |-> value,
                     variable_type |-> Get(kw, "variable_type", "env_var")],
                    EmptyDict)

\* project_create_variable up to its http_post; kw holds the keyword
\* arguments of the call (the ones that are no parameter are ignored)
project_create_variable_request(m, project_id, key, value, kw) ==
  LET formdata == Get(kw, "formdata", FALSE)
      formdata_fieldname == Get(kw, "formdata_fieldname", NoneStr)
      named == formdata_fieldname \notin {NoneStr, ""}
      base == [key |-> key,
               masked |-> Get(kw, "masked", FALSE),
               protected |-> Get(kw, "protected", FALSE),
               value |-> value,
               variable_type |-> Get(kw, "variable_type", "env_var")]
      post_data == IF formdata /\ named
                     THEN Merge(base, [formdata |-> TRUE,
                                       formdata_fieldname |-> formdata_fieldname])
                     ELSE base
  IN IF formdata /\ ~named
       THEN Raise(SaltInvocationError,
                  <<"formdata_fieldname must be set if formdata=True">>)
       ELSE http_post_request(m, VariablesPath(project_id), post_data, EmptyDict)

\* project_remove_variable's call of http_delete
project_remove_variable_request(m, project_id, key) ==
  http_delete_request(m, VariablePath(project_id, key), EmptyDict)

\* project_remove_variable drops what http_delete returns
project_remove_variable(deleted) == Return(EmptyDict)

\* the fields project_update_variable puts in the payload
params == {"environment_scope", "masked", "protected", "value", "variable_type"}

\* the keyword names of the model that start with '__' (the ones salt adds)
DunderNames == {"__pub_fun"}

\* update_post_data with a fault: every supplied field goes in the payload
update_post_data_all(kw) == kw

\* post_data of project_update_variable: the recognized fields popped from kwargs
update_post_data(kw) == Restrict(kw, params)

\* extra_args of project_update_variable: what is left of kwargs, but the
\* names that start with '__'
update_extra_args(kw) == Restrict(kw, ((DOMAIN kw) \ params) \ DunderNames)

\* project_update_variable up to its http_put
project_update_variable_request(m, project_id, key, kw) ==
  http_put_request(m, VariablePath(project_id, key),
                   update_post_data(kw), update_extra_args(kw))

\* the list of a project's variables, which project_set_variable reads: a
\* non-streamed GET of the project's variables
project_variables_request(m, project_id) ==
  http_get_request(m, VariablesPath(project_id), EmptyDict)

project_variables(response) == http_get(response, EmptyDict)

\* set_branch with a fault: any variable of the project counts as the key
set_branch_nonempty(key, vars) == IF vars # {} THEN "update" ELSE "create"

\* set_branch with a fault: always create
set_branch_create(key, vars) == "create"

\* project_set_variable's choice: `if key in variables`
set_branch(key, vars) == IF key \in vars THEN "update" ELSE "create"

\* ------------------------------------------------------- the server
\* the statuses GitLab answers a request on a project's variables with: what
\* the state of the project asks for, or a server error
VariableStatuses(method, present) ==
  { CASE method = "GET" -> 200
      [] method = "POST" -> (IF present THEN 400 ELSE 201)
      [] method = "PUT" -> (IF present THEN 200 ELSE 404)
      [] OTHER -> (IF present THEN 204 ELSE 404),
    500 }

\* the keys of the project once the request is answered with status
VariableEffect(method, status, key, keys) ==
  IF method = "POST" /\ status = 201 THEN keys \cup {key}
  ELSE IF method = "DELETE" /\ status = 204 THEN keys \ {key}
  ELSE keys

\* the statuses a server answers a request on any other path with
Statuses == {200, 201, 204, 400, 404, 500}

\* ------------------------------------------------------- the inputs
VerbPaths == { <<"/", "x">>, <<"x">> }
VerbBody == [id |-> "1"]
VerbData == { NoneDict, [name |-> "n"] }
GetKwargs == { EmptyDict, [stream |-> TRUE], [verify_ssl |-> FALSE] }
VerbKwargs == { EmptyDict, [verify_ssl |-> FALSE] }

CreateKwargs ==
  { EmptyDict,
    [masked |-> TRUE],
    [formdata |-> TRUE],
    [formdata |-> TRUE, formdata_fieldname |-> ""],
    [formdata |-> TRUE, formdata_fieldname |-> "file"],
    [formdata |-> FALSE, formdata_fieldname |-> "file"] }

\* the value each optional field is supplied with
FieldValue ==
  ("value" :> "v2") @@ ("masked" :> TRUE) @@ ("verify_ssl" :> FALSE)
  @@ ("__pub_fun" :> "gitlab.project_update_variable") @@ ("note" :> "n")
  @@ ("formdata" :> TRUE)

KwargsOver(names) == { Restrict(FieldValue, S) : S \in SUBSET names }

UpdateKwargs == KwargsOver({"value", "masked", "verify_ssl", "__pub_fun", "note"})
SetKwargs == KwargsOver({"masked", "formdata", "note"})

PathAlphabet == {"/", ".", "x"}
Paths == UNION { [1..n -> PathAlphabet] : n \in 0..MaxPathLen }
ApiUrls == { HostUrl, HostUrlSlash, HostUrlPath }

\* -------------------------------------------------------- the state
\* The master configuration is read anew by every request and is taken not to
\* change during a behaviour; every deployment's file is an initial state.
VARIABLES
  master,       \* /etc/salt/master as _get_config finds it
  server,       \* the keys of the variables of each project, on the server
  pc,           \* "idle", "set_act" (project_set_variable after its GET), "done"
  call,         \* the call in progress or just finished, with its arguments
  sent,         \* the requests the call handed to salt.utils.http.query, in order
  recv,         \* the responses query returned, in order
  result,       \* what the call returned or raised
  variables,    \* project_set_variable's local: the list of variables it read
  interleaved,  \* another client changed the call's key after the call's GET
  seen,         \* the races project_set_variable has run into so far
  u_base, u_path, u_url   \* the url function applied to one input

urlvars == <<u_base, u_path, u_url>>
callvars == <<pc, call, sent, recv, result, variables, interleaved, seen>>
vars == <<master, server, pc, call, sent, recv, result, variables, interleaved, seen,
          u_base, u_path, u_url>>

NoCall == [op |-> "none"]

\* project_set_variable's POST met a key that exists
DuplicateKey ==
  /\ call.op = "project_set_variable" /\ pc = "done" /\ Len(sent) = 2
  /\ sent[2].method = "POST" /\ recv[2].status = 400

\* project_set_variable's PUT met a key that does not exist
StaleUpdate ==
  /\ call.op = "project_set_variable" /\ pc = "done" /\ Len(sent) = 2
  /\ sent[2].method = "PUT" /\ recv[2].status = 404

Init ==
  /\ master \in MasterFiles
  /\ server \in [Projects -> SUBSET Keys]
  /\ pc = "idle" /\ call = NoCall /\ sent = <<>> /\ recv = <<>>
  /\ result = NoResult /\ variables = {} /\ interleaved = FALSE /\ seen = {}
  /\ u_base = <<>> /\ u_path = <<>> /\ u_url = <<>>

\* the call ends: with the requests it made, the responses, and its outcome
Finish(reqs, resps, res) ==
  /\ sent' = sent \o reqs /\ recv' = recv \o resps /\ result' = res /\ pc' = "done"

\* what function fn makes of the response to its request
ResultOf(fn, response, kw) ==
  CASE fn = "http_get" -> http_get(response, kw)
    [] fn = "http_post" -> http_post(response)
    [] fn = "http_put" -> http_put(response)
    [] fn = "http_delete" -> http_delete(response)
    [] fn = "project_remove_variable" -> project_remove_variable(http_delete(response))

\* a verb on a path that is no project variable: the server's state stays
Verb(plan, fn, kw) ==
  /\ IF plan.kind = "raise" THEN Finish(<<>>, <<>>, plan)
     ELSE \E status \in Statuses :
            LET response == query(plan.req, status, VerbBody) IN
            Finish(<<plan.req>>, <<response>>, ResultOf(fn, response, kw))
  /\ UNCHANGED <<master, server, variables, interleaved, seen, urlvars>>

HttpGet ==
  /\ pc = "idle"
  /\ \E path \in VerbPaths, kw \in GetKwargs :
       /\ call' = [op |-> "http_get", path |-> path, kw |-> kw]
       /\ Verb(http_get_request(master, path, kw), "http_get", kw)

HttpPost ==
  /\ pc = "idle"
  /\ \E path \in VerbPaths, data \in VerbData, kw \in VerbKwargs :
       /\ call' = [op |-> "http_post", path |-> path, data |-> data, kw |-> kw]
       /\ Verb(http_post_request(master, path, data, kw), "http_post", kw)

HttpPut ==
  /\ pc = "idle"
  /\ \E path \in VerbPaths, data \in VerbData, kw \in VerbKwargs :
       /\ call' = [op |-> "http_put", path |-> path, data |-> data, kw |-> kw]
       /\ Verb(http_put_request(master, path, data, kw), "http_put", kw)

HttpDelete ==
  /\ pc = "idle"
  /\ \E path \in VerbPaths, kw \in VerbKwargs :
       /\ call' = [op |-> "http_delete", path |-> path, kw |-> kw]
       /\ Verb(http_delete_request(master, path, kw), "http_delete", kw)

\* one request on a variable of a project, answered by the server
OnVariable(plan, fn, project_id, key) ==
  IF plan.kind = "raise" THEN Finish(<<>>, <<>>, plan) /\ UNCHANGED server
  ELSE \E status \in VariableStatuses(plan.req.method, key \in server[project_id]) :
         LET response == query(plan.req, status, [key |-> key]) IN
         /\ Finish(<<plan.req>>, <<response>>, ResultOf(fn, response, EmptyDict))
         /\ server' = [server EXCEPT ![project_id] =
                         VariableEffect(plan.req.method, status, key, @)]

DoCreate(project_id, key, value, kw) ==
  OnVariable(project_create_variable_request(master, project_id, key, value, kw),
             "http_post", project_id, key)

DoUpdate(project_id, key, kw) ==
  OnVariable(project_update_variable_request(master, project_id, key, kw),
             "http_put", project_id, key)

ProjectCreateVariable ==
  /\ pc = "idle"
  /\ \E project_id \in Projects, key \in Keys, value \in Values, kw \in CreateKwargs :
       /\ call' = [op |-> "project_create_variable", project_id |-> project_id,
                   key |-> key, value |-> value, kw |-> kw]
       /\ DoCreate(project_id, key, value, kw)
  /\ UNCHANGED <<master, variables, interleaved, seen, urlvars>>

ProjectRemoveVariable ==
  /\ pc = "idle"
  /\ \E project_id \in Projects, key \in Keys :
       /\ call' = [op |-> "project_remove_variable", project_id |-> project_id,
                   key |-> key]
       /\ OnVariable(project_remove_variable_request(master, project_id, key),
                     "project_remove_variable", project_id, key)
  /\ UNCHANGED <<master, variables, interleaved, seen, urlvars>>

ProjectUpdateVariable ==
  /\ pc = "idle"
  /\ \E project_id \in Projects, key \in Keys, kw \in UpdateKwargs :
       /\ call' = [op |-> "project_update_variable", project_id |-> project_id,
                   key |-> key, kw |-> kw]
       /\ DoUpdate(project_id, key, kw)
  /\ UNCHANGED <<master, variables, interleaved, seen, urlvars>>

\* project_set_variable to the return of project_variables
SetList ==
  /\ pc = "idle"
  /\ \E project_id \in Projects, key \in Keys, value \in Values, kw \in SetKwargs :
       /\ call' = [op |-> "project_set_variable", project_id |-> project_id,
                   key |-> key, value |-> value, kw |-> kw]
       /\ LET plan == project_variables_request(master, project_id) IN
          IF plan.kind = "raise"
            THEN Finish(<<>>, <<>>, plan) /\ variables' = {}
            ELSE \E status \in VariableStatuses("GET", TRUE) :
                   LET response == query(plan.req, status, server[project_id])
                       listed == project_variables(response)
                   IN IF listed.kind = "raise"
                        THEN Finish(<<plan.req>>, <<response>>, listed) /\ variables' = {}
                        ELSE /\ sent' = <<plan.req>> /\ recv' = <<response>>
                             /\ variables' = listed.value
                             /\ pc' = "set_act" /\ result' = result
  /\ UNCHANGED <<master, server, interleaved, seen, urlvars>>

\* project_set_variable from its `if key in variables` to its return
SetAct ==
  /\ pc = "set_act"
  /\ IF set_branch(call.key, variables) = "update"
       THEN DoUpdate(call.project_id, call.key,
                     Merge(call.kw, [value |-> call.value]))
       ELSE DoCreate(call.project_id, call.key, call.value, call.kw)
  /\ call' = call
  /\ seen' = seen \cup (IF DuplicateKey' THEN {"duplicate"} ELSE {})
                  \cup (IF StaleUpdate' THEN {"stale"} ELSE {})
  /\ UNCHANGED <<master, variables, interleaved, urlvars>>

\* another client creates a variable while project_set_variable is between its
\* two requests (at any other time this is another initial state)
OtherCreate ==
  /\ pc = "set_act"
  /\ \E project_id \in Projects : \E key \in Keys \ server[project_id] :
       /\ server' = [server EXCEPT ![project_id] = @ \cup {key}]
       /\ interleaved' = (interleaved \/ (project_id = call.project_id /\ key = call.key))
  /\ UNCHANGED <<master, pc, call, sent, recv, result, variables, seen, urlvars>>

\* another client deletes a variable in the same window
OtherDelete ==
  /\ pc = "set_act"
  /\ \E project_id \in Projects : \E key \in server[project_id] :
       /\ server' = [server EXCEPT ![project_id] = @ \ {key}]
       /\ interleaved' = (interleaved \/ (project_id = call.project_id /\ key = call.key))
  /\ UNCHANGED <<master, pc, call, sent, recv, result, variables, seen, urlvars>>

\* the caller has the outcome; nothing of the call is kept
Clear ==
  /\ pc = "done"
  /\ pc' = "idle" /\ call' = NoCall /\ sent' = <<>> /\ recv' = <<>>
  /\ result' = NoResult /\ variables' = {} /\ interleaved' = FALSE
  /\ UNCHANGED <<master, server, seen, urlvars>>

Next ==
  \/ HttpGet \/ HttpPost \/ HttpPut \/ HttpDelete
  \/ ProjectCreateVariable \/ ProjectRemoveVariable \/ ProjectUpdateVariable
  \/ SetList \/ SetAct \/ OtherCreate \/ OtherDelete \/ Clear

Spec == Init /\ [][Next]_vars

\* ---------------------------------------- the url function on its own
UrlInit ==
  /\ master = [readable |-> TRUE, opts |-> EmptyDict]
  /\ server = [p \in Projects |-> {}]
  /\ pc = "idle" /\ call = NoCall /\ sent = <<>> /\ recv = <<>>
  /\ result = NoResult /\ variables = {} /\ interleaved = FALSE /\ seen = {}
  /\ u_base \in ApiUrls /\ u_path \in Paths /\ u_url = <<>>

BuildUrl ==
  /\ u_url = <<>>
  /\ u_url' = RequestUrl(u_base, u_path)
  /\ UNCHANGED <<master, server, callvars, u_base, u_path>>

UrlNext == BuildUrl

SpecUrl == UrlInit /\ [][UrlNext]_vars

\* ------------------------------------------------- what the claims use
GitlabConfig == Get(master.opts, "gitlab", EmptyDict)
HasApiUrl == Get(GitlabConfig, "api_url", <<>>) # <<>>
HasToken == Get(GitlabConfig, "token", "") # ""
ConfigValid == master.readable /\ HasApiUrl /\ HasToken
ConfigLacking == master.readable /\ (~HasApiUrl \/ ~HasToken)

\* the configuration error the code raises for a lacking configuration: the
\* API URL is looked at first
MissingFieldError ==
  IF ~HasApiUrl THEN Raise(SaltInvocationError, <<"No GitLab API URL found">>)
  ELSE Raise(SaltInvocationError, <<"No GitLab Token found">>)

FormdataError ==
  Raise(SaltInvocationError, <<"formdata_fieldname must be set if formdata=True">>)

\* form-data encoding asked for, and no field name (unset or empty)
FormdataUnnamed(kw) ==
  /\ Get(kw, "formdata", FALSE) = TRUE
  /\ Get(kw, "formdata_fieldname", NoneStr) \in {NoneStr, ""}

\* a supplied field that is no recognized field, is not dropped, and is no
\* keyword the request function takes from http_put
Unforwardable(kw) ==
  \E name \in (DOMAIN kw) \ params :
    name \notin DunderNames /\ name \notin (AcceptedOptions \ {"data"})

\* the call is refused for its arguments before anything else happens
ArgRejected ==
  \/ call.op = "project_create_variable" /\ FormdataUnnamed(call.kw)
  \/ call.op = "project_update_variable" /\ Unforwardable(call.kw)

Done == pc = "done"
Streamed == call.op = "http_get" /\ Get(call.kw, "stream", FALSE) = TRUE

\* <api_url's scheme and host>/api/v4/projects/<id>/variables
VariablesUrl(project_id) ==
  <<GitlabConfig.api_url[1], "/", "api", "/", "v4",
    "/", "projects", "/", project_id, "/", "variables">>

SetListed ==
  /\ Done /\ call.op = "project_set_variable"
  /\ Len(recv) >= 1 /\ recv[1].status = 200

\* the mutating request of a project_set_variable call is the one the list asks for
SetMutation ==
  /\ Len(sent) = 2
  /\ IF call.key \in variables
       THEN /\ sent[2].method = "PUT"
            /\ sent[2].url = VariablesUrl(call.project_id) \o <<"/", call.key>>
       ELSE /\ sent[2].method = "POST"
            /\ sent[2].url = VariablesUrl(call.project_id)
            /\ sent[2].data.key = call.key

NotFoundGet ==
  /\ Done /\ call.op = "http_get" /\ ~Streamed
  /\ Len(recv) = 1 /\ recv[1].status = 404

ErrorStatus == Len(recv) = 1 /\ recv[1].status >= 400 /\ recv[1].status # 404

RaisesStatus ==
  /\ result.kind = "raise" /\ result.exc = SaltInvocationError
  /\ result.msg = <<"HTTP", recv[1].status>>

C5_FormdataNeedsFieldname ==
  (Done /\ call.op = "project_create_variable" /\ FormdataUnnamed(call.kw))
  => (result = FormdataError /\ sent = <<>>)

C5_Witness ==
  /\ Done /\ call.op = "project_create_variable" /\ FormdataUnnamed(call.kw)
  /\ ~ConfigValid /\ result = FormdataError

StripSlash(path) == IF path # <<>> /\ Head(path) = "/" THEN Tail(path) ELSE path

\* no segment of the request path is '.' or '..'
NoDotSegment(path) ==
  \A i \in 1..Len(Split(ApiRoot \o path)) :
    Split(ApiRoot \o path)[i] \notin {Dot, DotDot}

UrlBuilt == u_url # <<>>

\* C6 as stated, for an api_url that is scheme and host only and a path that
\* is not empty and has no '.' or '..' segment: the url is the configured
\* api_url, then /api/v4, then exactly one slash, then the path without its
\* leading slash; so p and "/" + p give the same url.
C6_Original ==
  (UrlBuilt /\ u_base = HostUrl /\ u_path # <<>> /\ NoDotSegment(u_path))
  => u_url = u_base \o ApiRoot \o <<"/">> \o StripSlash(u_path)

\* C6, what the code builds instead: for a path without '.' and '..' segments
\* the url is the scheme and host of api_url (a path in api_url is dropped),
\* then /api/v4, then the path as it was given: one slash separates /api/v4
\* from the path's content when the path has a leading slash and none when it
\* has not, so p and "/" + p give different urls.
C6_UrlIsRootThenPath ==
  (UrlBuilt /\ NoDotSegment(u_path)) =>
    u_url = <<u_base[1]>> \o ApiRoot \o u_path

C6_Witness ==
  /\ u_base = HostUrlPath /\ u_path = <<"x", "/", "x">>
  /\ u_url = <<"https://gitlab.example.com", "/", "api", "/", "v4", "x", "/", "x">>

SetSequence ==
  /\ Len(sent) \in {1, 2}
  /\ sent[1].method = "GET" /\ sent[1].url = VariablesUrl(call.project_id)
  /\ Len(sent) = 2 => sent[2].method \in {"POST", "PUT"}

JsonContent(req) ==
  /\ "Content-Type" \in DOMAIN req.headers
  /\ req.headers["Content-Type"] = "application/json"

CarriesToken(req) ==
  /\ "PRIVATE-TOKEN" \in DOMAIN req.headers
  /\ req.headers["PRIVATE-TOKEN"] = GitlabConfig.token

\* C8 as stated: every request carries PRIVATE-TOKEN with the configured
\* token, and every request that is not a GET carries Content-Type:
\* application/json.
C8_Original ==
  \A i \in 1..Len(sent) :
    CarriesToken(sent[i]) /\ (sent[i].method # "GET" => JsonContent(sent[i]))

\* C8, amended: every request carries PRIVATE-TOKEN with the configured token;
\* every request that is not a POST (GET, PUT, DELETE) carries Content-Type:
\* application/json, and a POST carries no Content-Type header.
C8_Headers ==
  \A i \in 1..Len(sent) :
    /\ CarriesToken(sent[i])
    /\ sent[i].method # "POST" => JsonContent(sent[i])
    /\ sent[i].method = "POST" => "Content-Type" \notin DOMAIN sent[i].headers

C8_Witness ==
  /\ Len(sent) = 2 /\ sent[1].method = "GET" /\ sent[2].method = "POST"

UpdateDone == Done /\ call.op = "project_update_variable"

\* C9 as stated: the PUT of project_update_variable has exactly the supplied
\* recognized fields as payload, and every other supplied field as an option
\* of the request.
C9_Original ==
  (UpdateDone /\ ConfigValid) =>
    /\ Len(sent) = 1
    /\ sent[1].data = Restrict(call.kw, params)
    /\ sent[1].options = Restrict(call.kw, (DOMAIN call.kw) \ params)

\* C9, amended: the PUT of project_update_variable has exactly the supplied
\* recognized fields, with their values, as payload; every other supplied
\* field whose name does not start with '__' is passed unchanged as a keyword
\* of the PUT call and is not in the payload, and the fields whose name starts
\* with '__' are dropped; when a passed field is no keyword the request
\* function takes, the call raises a TypeError and no PUT is made.
C9_UpdatePayload ==
  (UpdateDone /\ ConfigValid) =>
    IF Unforwardable(call.kw)
      THEN sent = <<>> /\ result.kind = "raise" /\ result.exc = TypeError
      ELSE /\ Len(sent) = 1 /\ sent[1].method = "PUT"
           /\ sent[1].data = Restrict(call.kw, params)
           /\ sent[1].options =
                Restrict(call.kw, ((DOMAIN call.kw) \ params) \ DunderNames)

C9_Witness ==
  /\ UpdateDone /\ ConfigValid /\ Len(sent) = 1
  /\ DOMAIN call.kw = {"value", "masked", "verify_ssl", "__pub_fun"}
  /\ DOMAIN sent[1].data = {"value", "masked"}
  /\ DOMAIN sent[1].options = {"verify_ssl"}

\* C10: project_set_variable is not atomic.  Its POST meets an existing key, or
\* its PUT a key that is gone, only when another client changed that key
\* between the call's list GET and its POST or PUT (and both happen then); and
\* the list the call decides on is the one its own GET returned, nothing kept
\* from an earlier call.
C10_RaceNeedsInterleaving ==
  /\ (DuplicateKey \/ StaleUpdate) => interleaved
  /\ pc = "set_act" => (Len(recv) = 1 /\ variables = recv[1].dict)
  /\ pc = "idle" => (call = NoCall /\ sent = <<>> /\ variables = {})

C10_Witness == seen = {"duplicate", "stale"}

====
